---- MODULE Spec2Model ----
(***************************************************************************)
(* Model of sys_eval.py: the design-evaluation wrapper                     *)
(* construct_and_evaluate_system and the receding-horizon evaluation       *)
(* evaluate_system (control loop followed by the objective aggregation).   *)
(*                                                                         *)
(* Numbers are integers: costs, prices and energies are exact, a state of  *)
(* charge fraction is a numerator over SocDen, an action is the unreduced  *)
(* quotient <<flow, capacity>> that the elementwise division produces.     *)
(* Python containers are 0-based, sequences here are 1-based.              *)
(***************************************************************************)
EXTENDS Integers, Sequences, FiniteSets, TLC

VARIABLES
    pc,              \* position of the call
    entry,           \* "facade": construct_and_evaluate_system, "direct": evaluate_system
    args,            \* the arguments of the call
    base_kwargs,     \* the caller-owned dict handed to construct_and_evaluate_system
    fs,              \* the filesystem: normalised path -> content of the file
    schema_path,     \* what build_schema returned / what evaluate_system was given
    env,             \* the CityLearnEnv object
    lp,              \* the LinProgModel object
    num_steps,
    done,
    observations,
    current_socs,
    results,         \* what the latest lp.solve_LP returned
    actions,         \* the action handed to the latest env.step
    log,             \* calls made on the planner and the environment, in order
    eval_results,    \* what evaluate_system returned
    ret,             \* what construct_and_evaluate_system returned
    raised           \* the exception that ended the call, if any

vars == <<pc, entry, args, base_kwargs, fs, schema_path, env, lp, num_steps, done,
          observations, current_socs, results, actions, log, eval_results, ret,
          raised>>

(***************************************************************************)
(* Bounds of the model and constants of the program.                       *)
(***************************************************************************)
MaxTimeSteps == 3        \* env.time_steps ranges over 1..MaxTimeSteps
MaxTau == 3              \* tau ranges over 0..MaxTau when evaluate_system is called directly
MaxSeriesLen == 2        \* length of the series of a terminal environment (SpecAgg)
SocDen == 2              \* a state-of-charge fraction is n / SocDen, n in 0..SocDen

DefaultTau == 48         \* evaluate_system(tau=48)
soc_obs_index == 22

Buildings == 1..2
None == "None"
\* a local that has not been assigned yet, a key the dict does not hold yet
Unset == <<>>
NoEnv == [kind |-> "none"]
NoResult == [kind |-> "none"]

Max(a, b) == IF a >= b THEN a ELSE b
Min(a, b) == IF a <= b THEN a ELSE b

RECURSIVE SeqSum(_)
SeqSum(s) == IF s = <<>> THEN 0 ELSE Head(s) + SeqSum(Tail(s))

(***************************************************************************)
(* File names and paths.  A path is the sequence of its components.        *)
(***************************************************************************)
\* a schema name that leaves the worker identifier out
MprocSchemaNameShared(mproc_id) == "mproc_schema_temp"

\* 'mproc_schema_temp_%s' % mproc_id
MprocSchemaName(mproc_id) == "mproc_schema_temp_" \o mproc_id

\* os.path.normpath: "." and empty components go, ".." takes its parent with it.
RECURSIVE NormPath(_)
NormPath(p) ==
    IF p = <<>> THEN <<>>
    ELSE LET init == NormPath(SubSeq(p, 1, Len(p) - 1))
             last == p[Len(p)]
         IN  IF last = "." \/ last = "" THEN init
             ELSE IF last = ".." /\ init # <<>> /\ init[Len(init)] # ".."
                  THEN SubSeq(init, 1, Len(init) - 1)
             ELSE Append(init, last)

\* os.path.normpath(schema_path).split(os.path.sep)[-1]
LastComponent(p) == LET n == NormPath(p) IN IF n = <<>> THEN "" ELSE n[Len(n)]

\* the condition of the cleanup with == for !=
IsTransientInverted(p) == LastComponent(p) = "schema.json"

\* the condition of the cleanup in construct_and_evaluate_system
IsTransient(p) == LastComponent(p) # "schema.json"

\* build_schema(**base_kwargs): the path of the schema file it writes
BuildSchemaPath(kw) == <<"data", kw.dataset_dir, ".", kw.schema_name \o ".json">>

\* build_schema(**base_kwargs): the content of the schema file it writes
BuildSchemaContent(kw) ==
    [battery_energy_capacities |-> kw.battery_energy_capacities,
     battery_efficiencies |-> kw.battery_efficiencies,
     pv_power_capacities |-> kw.pv_power_capacities,
     time_steps |-> kw.time_steps,
     done_after |-> kw.done_after]

(***************************************************************************)
(* The environment (CityLearnEnv), as far as evaluate_system uses it.      *)
(***************************************************************************)
\* the data set the schema points at: demand, tariff and carbon intensity at step k
BaseNet(b, k) == IF b = 1 THEN 3 + (k % 2) ELSE (k % 3) - 2
Price(k) == 1 + (k % 2)
Carbon(k) == 2 - (k % 2)
InitialSoc(b) == IF b = 1 THEN SocDen ELSE 0

Zeros(n) == [k \in 1..n |-> 0]

\* CityLearnEnv(schema=schema_path), given the content of the schema file
EnvFromSchema(c) ==
    [kind |-> "env",
     time_steps |-> c.time_steps,
     done_after |-> c.done_after,
     t |-> 0,
     soc |-> [b \in Buildings |-> InitialSoc(b)],
     buildings |-> [b \in Buildings |->
        [net_electricity_consumption |-> Zeros(c.time_steps),
         electricity_pricing |-> [k \in 1..c.time_steps |-> Price(k)],
         carbon_intensity |-> [k \in 1..c.time_steps |-> Carbon(k)],
         capacity_history |-> <<c.battery_energy_capacities[b]>>,
         nominal_power |-> c.pv_power_capacities[b]]]]

\* the observation matrix: one row per building, the state of charge in column 22
Observe(e) ==
    [b \in Buildings |->
        [c \in 0..soc_obs_index |->
            IF c = soc_obs_index THEN e.soc[b]
            ELSE IF c = soc_obs_index - 1 THEN e.t
            ELSE 0]]

\* the share of the capacity an action asks to charge, in SocDen-ths (nan: nothing)
ActionUnits(a) == IF a[2] = 0 THEN 0 ELSE (a[1] * SocDen) \div a[2]

\* one step of a battery: self-discharge, then the action, within [0, 1]
BatteryStep(n, a) == Max(0, Min(SocDen, Max(0, n - 1) + ActionUnits(a)))

\* env.step(actions): the environment after the step
EnvStep(e, acts) ==
    LET k == e.t + 1
        soc2 == [b \in Buildings |-> BatteryStep(e.soc[b], acts[b])]
        bld(b) ==
            LET old == e.buildings[b]
                delta == soc2[b] - e.soc[b]
                cap == old.capacity_history[Len(old.capacity_history)]
            IN  [old EXCEPT
                    !.net_electricity_consumption =
                        IF k <= e.time_steps
                        THEN [@ EXCEPT ![k] = BaseNet(b, k) + delta * cap]
                        ELSE @,
                    !.capacity_history =
                        Append(@, IF delta # 0 /\ cap > 1 THEN cap - 1 ELSE cap)]
    IN  [e EXCEPT !.t = k, !.soc = soc2, !.buildings = [b \in Buildings |-> bld(b)]]

\* the done flag env.step returns
EnvDone(e) == e.t >= e.done_after

(***************************************************************************)
(* The planner (LinProgModel), as far as evaluate_system uses it.          *)
(***************************************************************************)
\* lp.generate_LP(clip_level=..., pricing_dict=..., opex_factor=...): the planner
\* keeps the pricing dict it was configured with, whatever keys it holds
GenerateLP(l, pricing_dict) == [l EXCEPT !.pricing_dict = pricing_dict]

\* LinProgModel(env=env); lp.tau = tau; lp.generate_LP(...)
NewPlanner(e, tau, pricing_dict) ==
    GenerateLP([kind |-> "lp",
                tau |-> tau,
                N |-> Cardinality(Buildings),
                battery_capacities |->
                    [b \in Buildings |-> e.buildings[b].capacity_history[1]],
                pricing_dict |-> Unset,
                window |-> Unset],
               pricing_dict)

\* results['battery_inflows'][0][:,0]: what a solve may return for the first timestep
FirstInflows(l) ==
    LET choices(b) == {-l.battery_capacities[b], 0, l.battery_capacities[b]}
    IN  {f \in [Buildings -> UNION {choices(b) : b \in Buildings}] :
            \A b \in Buildings : f[b] \in choices(b)}

\* lp.set_time_data_from_envs(t_start=..., tau=..., current_socs=...)
SetTimeData(l, t_start, tau, socs) ==
    [l EXCEPT !.window = [t_start |-> t_start, tau |-> tau, current_socs |-> socs]]

(***************************************************************************)
(* evaluate_system: the control loop.                                      *)
(***************************************************************************)
\* the state of charge read from the neighbouring column of the observation
SocsFromObservationsWrongColumn(obs, caps) ==
    [b \in Buildings |-> obs[b][soc_obs_index - 1] * caps[b]]

\* np.array([[charge*capacity for charge,capacity in zip(obs[:,soc_obs_index], caps)]])
SocsFromObservations(obs, caps) == [b \in Buildings |-> obs[b][soc_obs_index] * caps[b]]

\* the guard with < for <=: the last full window is not planned
PlanNowStrict(s, time_steps, tau, no_control) ==
    (s < (time_steps - 1) - tau) /\ (no_control = FALSE)

\* the guard without its no_control conjunct
PlanNowAlways(s, time_steps, tau, no_control) ==
    s <= (time_steps - 1) - tau

\* the guard without the horizon: every step inside the simulation plans
PlanNowNoHorizon(s, time_steps, tau, no_control) ==
    (s <= time_steps - 1) /\ (no_control = FALSE)

\* (num_steps <= (env.time_steps - 1) - tau) and (no_control==False)
PlanNow(s, time_steps, tau, no_control) ==
    (s <= (time_steps - 1) - tau) /\ (no_control = FALSE)

\* the first-timestep flows taken as the action, without the division
NormaliseUndivided(flows, caps) == [b \in Buildings |-> <<flows[b], 1>>]

\* results[...].reshape((lp.N,1))/lp.battery_capacities
Normalise(flows, caps) == [b \in Buildings |-> <<flows[b], caps[b]>>]

\* np.zeros((lp.N,1))
ZeroActions == [b \in Buildings |-> <<0, 1>>]

Event(op, s) == [op |-> op, s |-> s]

\* a loop that never looks at the done flag
LoopContinuesAlways(d) == TRUE

\* while not done
LoopContinues(d) == ~d

(***************************************************************************)
(* evaluate_system: the objective.                                         *)
(***************************************************************************)
\* [b.net_electricity_consumption for b in env.buildings]
NetSeries(e) == [b \in Buildings |-> e.buildings[b].net_electricity_consumption]

\* np.sum(rows, axis=0)
NpSumAxis0(rows) ==
    [k \in 1..Len(rows[1]) |-> SeqSum([b \in Buildings |-> rows[b][k]])]

\* the series left as it is, exports included
NpClip0None(x) == x

\* np.clip(x, 0, None)
NpClip0(x) == [k \in 1..Len(x) |-> Max(x[k], 0)]

\* x @ y
Dot(x, y) == SeqSum([k \in 1..Len(x) |-> x[k] * y[k]])

\* the district-level term with the clip applied before the sum over buildings
DistrictTermClipFirst(e, series) ==
    Dot(NpSumAxis0([b \in Buildings |-> NpClip0(NetSeries(e)[b])]), series)

\* the district-level term: np.clip(np.sum([...],axis=0),0,None) @ series
DistrictTerm(e, series) == Dot(NpClip0(NpSumAxis0(NetSeries(e))), series)

\* the building-level term: np.sum([np.clip(net_elec,0,None) @ series for net_elec in [...]])
BuildingTerm(e, series) ==
    SeqSum([b \in Buildings |-> Dot(NpClip0(NetSeries(e)[b]), series)])

\* the first entry with 'm' clipping the electricity term at district level
ElectricityContributionMixedDistrict(clip_level, e) ==
    LET price == e.buildings[1].electricity_pricing
    IN  CASE clip_level = "d" -> DistrictTerm(e, price)
          [] clip_level = "b" -> BuildingTerm(e, price)
          [] clip_level = "m" -> DistrictTerm(e, price)

\* the first entry appended to objective_contributions
ElectricityContribution(clip_level, e) ==
    LET price == e.buildings[1].electricity_pricing
    IN  CASE clip_level = "d" -> DistrictTerm(e, price)
          [] clip_level = "b" -> BuildingTerm(e, price)
          [] clip_level = "m" -> BuildingTerm(e, price)

\* the second entry with the carbon price left out of the 'b' branch
CarbonContributionUnpriced(clip_level, e, l) ==
    LET ci == e.buildings[1].carbon_intensity
    IN  CASE clip_level = "d" -> DistrictTerm(e, ci) * l.pricing_dict.carbon
          [] clip_level = "b" -> BuildingTerm(e, ci)
          [] clip_level = "m" -> DistrictTerm(e, ci) * l.pricing_dict.carbon

\* the second entry appended to objective_contributions
CarbonContribution(clip_level, e, l) ==
    LET ci == e.buildings[1].carbon_intensity
    IN  CASE clip_level = "d" -> DistrictTerm(e, ci) * l.pricing_dict.carbon
          [] clip_level = "b" -> BuildingTerm(e, ci) * l.pricing_dict.carbon
          [] clip_level = "m" -> DistrictTerm(e, ci) * l.pricing_dict.carbon

\* the operating costs left at the simulated duration
ScaleOpexNone(contrs, opex_factor) == contrs

\* [contr*opex_factor for contr in objective_contributions]
ScaleOpex(contrs, opex_factor) == [i \in 1..Len(contrs) |-> contrs[i] * opex_factor]

\* the battery cost read from the latest entry of the capacity history
BatteryCapexLatest(e, l) ==
    SeqSum([b \in Buildings |->
              e.buildings[b].capacity_history[Len(e.buildings[b].capacity_history)]])
        * l.pricing_dict.battery

\* np.sum([b.electrical_storage.capacity_history[0] for b in env.buildings]) * lp.pricing_dict['battery']
BatteryCapex(e, l) ==
    SeqSum([b \in Buildings |-> e.buildings[b].capacity_history[1]]) * l.pricing_dict.battery

\* np.sum([b.pv.nominal_power for b in env.buildings]) * lp.pricing_dict['solar']
SolarCapex(e, l) ==
    SeqSum([b \in Buildings |-> e.buildings[b].nominal_power]) * l.pricing_dict.solar

\* the keys read from lp.pricing_dict while the objective is put together
KeysRead(clip_level, design) ==
    (IF clip_level \in {"d", "b", "m"} THEN {"carbon"} ELSE {})
        \cup (IF design THEN {"battery", "solar"} ELSE {})

\* objective_contributions as the return statement finds it
ObjectiveContributions(clip_level, design, opex_factor, e, l) ==
    LET opex == IF clip_level \in {"d", "b", "m"}
                THEN <<ElectricityContribution(clip_level, e),
                       CarbonContribution(clip_level, e, l)>>
                ELSE <<>>
    IN  IF design
        THEN ScaleOpex(opex, opex_factor) \o <<BatteryCapex(e, l), SolarCapex(e, l)>>
        ELSE opex

\* the objective summed over the operating costs only
EvaluationResultOpexOnly(contrs) ==
    [kind |-> "result",
     objective |-> IF Len(contrs) >= 2 THEN contrs[1] + contrs[2] ELSE 0,
     objective_contrs |-> contrs]

\* {'objective': np.sum(objective_contributions), 'objective_contrs': objective_contributions}
EvaluationResult(contrs) ==
    [kind |-> "result", objective |-> SeqSum(contrs), objective_contrs |-> contrs]

(***************************************************************************)
(* The calls the model explores.                                           *)
(***************************************************************************)
ClipLevels == {"d", "b", "m"}
PricingDicts == {[carbon |-> 2, battery |-> 3, solar |-> 5]}
OpexFactors == {1, 3}
BatteryDesigns == {<<2, 1>>, <<0, 3>>}
SolarDesigns == {<<1, 2>>}
MprocIds == {None, "0", "1"}
SchemaNames == {"schema", "base"}
ReferencePath == <<"data", "A37", "schema.json">>

\* the step at which an environment of T time steps may signal done
DoneChoices(T) == {Max(1, T - 1), T}

ReferenceSchema(T, da) ==
    [battery_energy_capacities |-> <<2, 1>>,
     battery_efficiencies |-> <<1, 1>>,
     pv_power_capacities |-> <<1, 2>>,
     time_steps |-> T,
     done_after |-> da]

InitLocals ==
    /\ env = NoEnv
    /\ lp = NoEnv
    /\ num_steps = 0
    /\ done = FALSE
    /\ observations = Unset
    /\ current_socs = Unset
    /\ results = Unset
    /\ actions = Unset
    /\ log = <<>>
    /\ eval_results = NoResult
    /\ ret = NoResult
    /\ raised = None

\* a call of construct_and_evaluate_system; it calls evaluate_system with the
\* defaults clip_level='m', design=True, tau=48
InitFacade ==
    /\ entry = "facade"
    /\ pc = "call"
    /\ \E T \in (1..MaxTimeSteps) \cup {DefaultTau + 1} :
       \E da \in DoneChoices(T), name \in SchemaNames :
          /\ base_kwargs = [schema_name |-> name, dataset_dir |-> "A37",
                            time_steps |-> T, done_after |-> da,
                            battery_energy_capacities |-> Unset,
                            battery_efficiencies |-> Unset,
                            pv_power_capacities |-> Unset]
          /\ fs = (ReferencePath :> ReferenceSchema(1, 1))
    /\ schema_path = Unset
    /\ \E caps \in BatteryDesigns, sol \in SolarDesigns, pd \in PricingDicts,
          k \in OpexFactors, id \in MprocIds, rc \in BOOLEAN, nc \in BOOLEAN :
          args = [battery_capacities |-> caps, solar_capacities |-> sol,
                  battery_efficiencies |-> <<1, 1>>, pricing_dict |-> pd,
                  opex_factor |-> k, mproc_id |-> id, return_contrs |-> rc,
                  no_control |-> nc, clip_level |-> "m", design |-> TRUE,
                  tau |-> DefaultTau]
    /\ InitLocals

\* a call of evaluate_system on the reference schema
InitDirect ==
    /\ entry = "direct"
    /\ pc = "eval"
    /\ base_kwargs = None
    /\ \E T \in 1..MaxTimeSteps : \E da \in DoneChoices(T) :
          fs = (ReferencePath :> ReferenceSchema(T, da))
    /\ schema_path = ReferencePath
    /\ \E pd \in PricingDicts, k \in OpexFactors, nc \in BOOLEAN,
          clip \in ClipLevels, des \in BOOLEAN, tau \in 0..MaxTau :
          args = [battery_capacities |-> None, solar_capacities |-> None,
                  battery_efficiencies |-> None, pricing_dict |-> pd,
                  opex_factor |-> k, mproc_id |-> None, return_contrs |-> TRUE,
                  no_control |-> nc, clip_level |-> clip, design |-> des,
                  tau |-> tau]
    /\ InitLocals

Init == InitFacade \/ InitDirect

(***************************************************************************)
(* construct_and_evaluate_system, up to the call of evaluate_system.       *)
(***************************************************************************)
\* the caller's schema name kept whatever the worker identifier
UpdateSchemaNameSkipped(kw, a) == kw

\* if mproc_id is not None: base_kwargs.update({'schema_name': ...})
UpdateSchemaName(kw, a) ==
    IF a.mproc_id # None
    THEN [kw EXCEPT !.schema_name = MprocSchemaName(a.mproc_id)]
    ELSE kw

\* base_kwargs.update({'battery_energy_capacities': ..., ...})
UpdateDesign(kw, a) ==
    [kw EXCEPT !.battery_energy_capacities = a.battery_capacities,
               !.battery_efficiencies = a.battery_efficiencies,
               !.pv_power_capacities = a.solar_capacities]

\* base_kwargs.update(...) twice
UpdatedKwargs(kw, a) == UpdateDesign(UpdateSchemaName(kw, a), a)

BuildSchema ==
    /\ pc = "call"
    /\ pc' = "eval"
    /\ base_kwargs' = UpdatedKwargs(base_kwargs, args)
    /\ schema_path' = BuildSchemaPath(base_kwargs')
    /\ fs' = [q \in DOMAIN fs \cup {NormPath(schema_path')} |->
                IF q = NormPath(schema_path') THEN BuildSchemaContent(base_kwargs')
                ELSE fs[q]]
    /\ UNCHANGED <<entry, args, env, lp, num_steps, done, observations, current_socs,
                   results, actions, log, eval_results, ret, raised>>

(***************************************************************************)
(* evaluate_system.                                                        *)
(***************************************************************************)
\* the environment and the planner are built, the environment is reset
InitialiseEvaluation ==
    /\ pc = "eval"
    /\ IF NormPath(schema_path) \in DOMAIN fs
       THEN LET e == EnvFromSchema(fs[NormPath(schema_path)])
                l == NewPlanner(e, args.tau, args.pricing_dict)
            IN  /\ pc' = "loop"
                /\ env' = e
                /\ lp' = l
                /\ observations' = Observe(e)
                /\ current_socs' = SocsFromObservations(Observe(e), l.battery_capacities)
                /\ log' = Append(log, Event("reset", 0))
                /\ UNCHANGED raised
       ELSE /\ raised' = "schema"
            /\ pc' = "raised"
            /\ UNCHANGED <<env, lp, observations, current_socs, log>>
    /\ num_steps' = 0
    /\ done' = FALSE
    /\ UNCHANGED <<entry, args, base_kwargs, fs, schema_path, results, actions,
                   eval_results, ret>>

\* the calls on the planner in an iteration that plans
PlanningEvents(s) == <<Event("load", s), Event("params", s), Event("solve", s)>>

\* one iteration of the while loop in which nothing fails
ControlLoopStep ==
    /\ pc = "loop"
    /\ LoopContinues(done)
    /\ num_steps' = num_steps + 1
    /\ LET plan == PlanNow(num_steps, env.time_steps, args.tau, args.no_control)
       IN  \E flows \in IF plan THEN FirstInflows(lp) ELSE {None} :
             LET acts == IF plan THEN Normalise(flows, lp.battery_capacities)
                         ELSE ZeroActions
                 e2 == EnvStep(env, acts)
             IN  /\ lp' = IF plan
                          THEN SetTimeData(lp, num_steps, args.tau, current_socs)
                          ELSE lp
                 /\ results' = IF plan THEN [battery_inflows |-> flows] ELSE results
                 /\ actions' = acts
                 /\ env' = e2
                 /\ observations' = Observe(e2)
                 /\ done' = EnvDone(e2)
                 /\ current_socs' =
                        SocsFromObservations(Observe(e2), lp.battery_capacities)
                 /\ log' = log \o (IF plan THEN PlanningEvents(num_steps) ELSE <<>>)
                               \o <<Event("step", num_steps)>>
                 /\ pc' = IF LoopContinues(done') THEN "loop" ELSE "loop_done"
    /\ UNCHANGED <<entry, args, base_kwargs, fs, schema_path, eval_results, ret, raised>>

\* a failed solve answered by the zero action: the loop goes on
SolveRaisesFallsBack ==
    /\ pc = "loop"
    /\ LoopContinues(done)
    /\ PlanNow(num_steps, env.time_steps, args.tau, args.no_control)
    /\ lp' = SetTimeData(lp, num_steps, args.tau, current_socs)
    /\ actions' = ZeroActions
    /\ env' = EnvStep(env, ZeroActions)
    /\ observations' = Observe(env')
    /\ done' = EnvDone(env')
    /\ current_socs' = SocsFromObservations(observations', lp.battery_capacities)
    /\ log' = log \o PlanningEvents(num_steps) \o <<Event("step", num_steps)>>
    /\ num_steps' = num_steps + 1
    /\ raised' = "solve"
    /\ pc' = IF LoopContinues(done') THEN "loop" ELSE "loop_done"
    /\ UNCHANGED <<entry, args, base_kwargs, fs, schema_path, results, eval_results, ret>>

\* an iteration in which lp.solve_LP raises
SolveRaises ==
    /\ pc = "loop"
    /\ LoopContinues(done)
    /\ PlanNow(num_steps, env.time_steps, args.tau, args.no_control)
    /\ raised' = "solve"
    /\ pc' = "raised"
    /\ lp' = SetTimeData(lp, num_steps, args.tau, current_socs)
    /\ log' = log \o PlanningEvents(num_steps)
    /\ UNCHANGED <<entry, args, base_kwargs, fs, schema_path, env, num_steps, done,
                   observations, current_socs, results, actions, eval_results, ret>>

\* an iteration in which env.step raises
StepRaises ==
    /\ pc = "loop"
    /\ LoopContinues(done)
    /\ raised' = "step"
    /\ pc' = "raised"
    /\ LET plan == PlanNow(num_steps, env.time_steps, args.tau, args.no_control)
       IN  \E flows \in IF plan THEN FirstInflows(lp) ELSE {None} :
             /\ lp' = IF plan
                      THEN SetTimeData(lp, num_steps, args.tau, current_socs)
                      ELSE lp
             /\ results' = IF plan THEN [battery_inflows |-> flows] ELSE results
             /\ actions' = IF plan THEN Normalise(flows, lp.battery_capacities)
                           ELSE ZeroActions
             /\ log' = log \o (IF plan THEN PlanningEvents(num_steps) ELSE <<>>)
                           \o <<Event("step", num_steps)>>
    /\ UNCHANGED <<entry, args, base_kwargs, fs, schema_path, env, num_steps, done,
                   observations, current_socs, eval_results, ret>>

\* the objective is computed and evaluate_system returns
Aggregate ==
    /\ pc = "loop_done"
    /\ IF KeysRead(args.clip_level, args.design) \subseteq DOMAIN lp.pricing_dict
       THEN /\ pc' = "evaluated"
            /\ eval_results' = EvaluationResult(
                    ObjectiveContributions(args.clip_level, args.design,
                                           args.opex_factor, env, lp))
            /\ UNCHANGED raised
       ELSE /\ pc' = "raised"
            /\ raised' = "KeyError"
            /\ UNCHANGED eval_results
    /\ UNCHANGED <<entry, args, base_kwargs, fs, schema_path, env, lp, num_steps, done,
                   observations, current_socs, results, actions, log, ret>>

(***************************************************************************)
(* construct_and_evaluate_system, after evaluate_system has returned.      *)
(***************************************************************************)
\* os.remove(schema_path)
Remove(files, p) == [q \in DOMAIN files \ {NormPath(p)} |-> files[q]]

RemoveSchema ==
    /\ entry = "facade"
    /\ pc = "evaluated"
    /\ IF IsTransient(schema_path)
       THEN IF NormPath(schema_path) \in DOMAIN fs
            THEN /\ fs' = Remove(fs, schema_path)
                 /\ pc' = "cleaned"
                 /\ UNCHANGED raised
            ELSE /\ raised' = "remove"
                 /\ pc' = "raised"
                 /\ UNCHANGED fs
       ELSE /\ pc' = "cleaned"
            /\ UNCHANGED <<fs, raised>>
    /\ UNCHANGED <<entry, args, base_kwargs, schema_path, env, lp, num_steps, done,
                   observations, current_socs, results, actions, log, eval_results, ret>>

Return ==
    /\ entry = "facade"
    /\ pc = "cleaned"
    /\ pc' = "returned"
    /\ ret' = IF args.return_contrs THEN eval_results
              ELSE [kind |-> "objective", objective |-> eval_results.objective]
    /\ UNCHANGED <<entry, args, base_kwargs, fs, schema_path, env, lp, num_steps, done,
                   observations, current_socs, results, actions, log, eval_results, raised>>

Next ==
    \/ BuildSchema
    \/ InitialiseEvaluation
    \/ ControlLoopStep
    \/ SolveRaises
    \/ StepRaises
    \/ Aggregate
    \/ RemoveSchema
    \/ Return

Spec == Init /\ [][Next]_vars

(***************************************************************************)
(* Calls with a pricing dict that may lack a key.                          *)
(***************************************************************************)
FullPricingDict == [carbon |-> 2, battery |-> 3, solar |-> 5]
ConfigPricingDicts ==
    {FullPricingDict} \cup
    {[k \in DOMAIN FullPricingDict \ {missing} |-> FullPricingDict[k]] :
        missing \in DOMAIN FullPricingDict}

InitConfig ==
    /\ \E T \in 1..MaxTimeSteps, pd \in ConfigPricingDicts, nc \in BOOLEAN :
          \/ /\ entry = "direct"
             /\ pc = "eval"
             /\ base_kwargs = None
             /\ fs = (ReferencePath :> ReferenceSchema(T, T))
             /\ schema_path = ReferencePath
             /\ \E clip \in ClipLevels, des \in BOOLEAN, tau \in {0, DefaultTau} :
                   args = [battery_capacities |-> None, solar_capacities |-> None,
                           battery_efficiencies |-> None, pricing_dict |-> pd,
                           opex_factor |-> 1, mproc_id |-> None, return_contrs |-> TRUE,
                           no_control |-> nc, clip_level |-> clip, design |-> des,
                           tau |-> tau]
          \/ /\ entry = "facade"
             /\ pc = "call"
             /\ base_kwargs = [schema_name |-> "base", dataset_dir |-> "A37",
                               time_steps |-> T, done_after |-> T,
                               battery_energy_capacities |-> Unset,
                               battery_efficiencies |-> Unset,
                               pv_power_capacities |-> Unset]
             /\ fs = (ReferencePath :> ReferenceSchema(1, 1))
             /\ schema_path = Unset
             /\ \E id \in MprocIds, rc \in BOOLEAN :
                   args = [battery_capacities |-> <<2, 1>>, solar_capacities |-> <<1, 2>>,
                           battery_efficiencies |-> <<1, 1>>, pricing_dict |-> pd,
                           opex_factor |-> 1, mproc_id |-> id, return_contrs |-> rc,
                           no_control |-> nc, clip_level |-> "m", design |-> TRUE,
                           tau |-> DefaultTau]
    /\ InitLocals

SpecConfig == InitConfig /\ [][Next]_vars

\* the call keeps running up to the end of its control loop: the schema gets
\* built, the evaluation gets initialised, and an iteration that can run does
SpecFair ==
    /\ Spec
    /\ WF_pc(BuildSchema)
    /\ WF_pc(InitialiseEvaluation)
    /\ WF_num_steps(ControlLoopStep)

(***************************************************************************)
(* The objective on its own: evaluate_system at the end of its loop, for   *)
(* every terminal environment of a bounded family.                         *)
(***************************************************************************)
NetVals == {-4, 0, 10}
\* <<electricity price, carbon intensity>> of a timestep
TariffVals == {<<0, 1>>, <<1, 2>>, <<2, 1>>}
\* per building <<capacity history, nominal solar power>>
HardwareChoices ==
    {<< <<<<2, 2>>, 1>>, <<<<1, 1>>, 0>> >>,
     << <<<<3, 2>>, 2>>, <<<<2, 1, 1>>, 3>> >>}

TerminalEnv(T, net, tariff, hw) ==
    [kind |-> "env",
     time_steps |-> T,
     done_after |-> T,
     t |-> T,
     soc |-> [b \in Buildings |-> 0],
     buildings |-> [b \in Buildings |->
        [net_electricity_consumption |-> net[b],
         electricity_pricing |-> [k \in 1..T |-> tariff[k][1]],
         carbon_intensity |-> [k \in 1..T |-> tariff[k][2]],
         capacity_history |-> hw[b][1],
         nominal_power |-> hw[b][2]]]]

InitAgg ==
    /\ entry = "direct"
    /\ pc = "loop_done"
    /\ base_kwargs = None
    /\ fs = (ReferencePath :> ReferenceSchema(1, 1))
    /\ schema_path = ReferencePath
    /\ \E pd \in PricingDicts, k \in OpexFactors, clip \in ClipLevels, des \in BOOLEAN :
          /\ args = [battery_capacities |-> None, solar_capacities |-> None,
                     battery_efficiencies |-> None, pricing_dict |-> pd,
                     opex_factor |-> k, mproc_id |-> None, return_contrs |-> TRUE,
                     no_control |-> TRUE, clip_level |-> clip, design |-> des,
                     tau |-> DefaultTau]
          /\ \E T \in 1..MaxSeriesLen :
             \E net \in [Buildings -> [1..T -> NetVals]], tariff \in [1..T -> TariffVals],
                hw \in HardwareChoices :
                /\ env = TerminalEnv(T, net, tariff, hw)
                /\ lp = NewPlanner(env, DefaultTau, pd)
                /\ num_steps = T
    /\ done = TRUE
    /\ observations = Unset
    /\ current_socs = Unset
    /\ results = Unset
    /\ actions = Unset
    /\ log = <<>>
    /\ eval_results = NoResult
    /\ ret = NoResult
    /\ raised = None

NextAgg == Aggregate

SpecAgg == InitAgg /\ [][NextAgg]_vars

(***************************************************************************)
(* Two calls of construct_and_evaluate_system running at the same time.    *)
(* pc, args, schema_path, env, eval_results, ret and raised hold one value *)
(* per call; base_kwargs holds the dict objects the callers own, and       *)
(* args[c].base_kwargs names the object call c was handed; fs is shared.   *)
(***************************************************************************)
Callers == {1, 2}
KwargsObjects == {"kw1", "kw2"}
Other(c) == CHOOSE d \in Callers : d # c

\* the design each caller asks for
DesignOf(c) ==
    IF c = 1
    THEN [battery_capacities |-> <<2, 1>>, solar_capacities |-> <<1, 2>>]
    ELSE [battery_capacities |-> <<0, 3>>, solar_capacities |-> <<2, 1>>]

InitConc ==
    /\ entry = "facade"
    /\ pc = [c \in Callers |-> "name"]
    /\ \E T \in 1..MaxSeriesLen, n1 \in SchemaNames, n2 \in SchemaNames :
          base_kwargs =
            [o \in KwargsObjects |->
                [schema_name |-> IF o = "kw1" THEN n1 ELSE n2, dataset_dir |-> "A37",
                 time_steps |-> T, done_after |-> T,
                 battery_energy_capacities |-> Unset,
                 battery_efficiencies |-> Unset,
                 pv_power_capacities |-> Unset]]
    /\ \E id1 \in MprocIds, id2 \in MprocIds, o2 \in KwargsObjects :
          args = [c \in Callers |->
                    [battery_capacities |-> DesignOf(c).battery_capacities,
                     solar_capacities |-> DesignOf(c).solar_capacities,
                     battery_efficiencies |-> <<1, 1>>,
                     base_kwargs |-> IF c = 1 THEN "kw1" ELSE o2,
                     pricing_dict |-> FullPricingDict, opex_factor |-> 1,
                     mproc_id |-> IF c = 1 THEN id1 ELSE id2,
                     return_contrs |-> FALSE, no_control |-> FALSE,
                     clip_level |-> "m", design |-> TRUE, tau |-> DefaultTau]]
    /\ fs = (ReferencePath :> ReferenceSchema(1, 1))
    /\ schema_path = [c \in Callers |-> Unset]
    /\ env = [c \in Callers |-> NoEnv]
    /\ lp = NoEnv
    /\ num_steps = 0
    /\ done = FALSE
    /\ observations = Unset
    /\ current_socs = Unset
    /\ results = Unset
    /\ actions = Unset
    /\ log = <<>>
    /\ eval_results = [c \in Callers |-> NoResult]
    /\ ret = [c \in Callers |-> NoResult]
    /\ raised = [c \in Callers |-> None]

LocalsUnchanged ==
    UNCHANGED <<entry, args, lp, num_steps, done, observations, current_socs, results,
                actions>>

\* lines 26-29 of call c
SetSchemaName(c) ==
    /\ pc[c] = "name"
    /\ pc' = [pc EXCEPT ![c] = "design"]
    /\ base_kwargs' = [base_kwargs EXCEPT
                         ![args[c].base_kwargs] = UpdateSchemaName(@, args[c])]
    /\ UNCHANGED <<fs, schema_path, env, log, eval_results, ret, raised>>
    /\ LocalsUnchanged

\* lines 31-35 of call c
SetDesign(c) ==
    /\ pc[c] = "design"
    /\ pc' = [pc EXCEPT ![c] = "build"]
    /\ base_kwargs' = [base_kwargs EXCEPT
                         ![args[c].base_kwargs] = UpdateDesign(@, args[c])]
    /\ UNCHANGED <<fs, schema_path, env, log, eval_results, ret, raised>>
    /\ LocalsUnchanged

\* line 36 of call c: build_schema is handed the dict as it is now
CallBuildSchema(c) ==
    /\ pc[c] = "build"
    /\ pc' = [pc EXCEPT ![c] = "env"]
    /\ LET kw == base_kwargs[args[c].base_kwargs]
           path == BuildSchemaPath(kw)
       IN  /\ schema_path' = [schema_path EXCEPT ![c] = path]
           /\ fs' = [q \in DOMAIN fs \cup {NormPath(path)} |->
                       IF q = NormPath(path) THEN BuildSchemaContent(kw) ELSE fs[q]]
           /\ log' = Append(log, [op |-> "build_schema", caller |-> c, kwargs |-> kw])
    /\ UNCHANGED <<base_kwargs, env, eval_results, ret, raised>>
    /\ LocalsUnchanged

\* line 87 of call c: the environment is built from the file found at schema_path
ConstructEnv(c) ==
    /\ pc[c] = "env"
    /\ IF NormPath(schema_path[c]) \in DOMAIN fs
       THEN /\ pc' = [pc EXCEPT ![c] = "run"]
            /\ env' = [env EXCEPT ![c] = EnvFromSchema(fs[NormPath(schema_path[c])])]
            /\ UNCHANGED raised
       ELSE /\ pc' = [pc EXCEPT ![c] = "raised"]
            /\ raised' = [raised EXCEPT ![c] = "schema"]
            /\ UNCHANGED env
    /\ UNCHANGED <<base_kwargs, fs, schema_path, log, eval_results, ret>>
    /\ LocalsUnchanged

\* the control loop of a call whose horizon is longer than the simulation: no
\* iteration plans, every action is zero
RECURSIVE RunUncontrolled(_)
RunUncontrolled(e) ==
    LET e2 == EnvStep(e, ZeroActions)
    IN  IF EnvDone(e2) THEN e2 ELSE RunUncontrolled(e2)

\* lines 90-161 of call c: nothing outside the call is read or written
EvaluateRest(c) ==
    /\ pc[c] = "run"
    /\ pc' = [pc EXCEPT ![c] = "remove"]
    /\ env' = [env EXCEPT ![c] = RunUncontrolled(@)]
    /\ eval_results' = [eval_results EXCEPT ![c] =
            EvaluationResult(
                ObjectiveContributions(args[c].clip_level, args[c].design,
                    args[c].opex_factor, env'[c],
                    NewPlanner(env[c], args[c].tau, args[c].pricing_dict)))]
    /\ UNCHANGED <<base_kwargs, fs, schema_path, log, ret, raised>>
    /\ LocalsUnchanged

\* lines 43-44 of call c
RemoveSchemaOf(c) ==
    /\ pc[c] = "remove"
    /\ IF IsTransient(schema_path[c])
       THEN IF NormPath(schema_path[c]) \in DOMAIN fs
            THEN /\ fs' = Remove(fs, schema_path[c])
                 /\ pc' = [pc EXCEPT ![c] = "return"]
                 /\ UNCHANGED raised
            ELSE /\ raised' = [raised EXCEPT ![c] = "remove"]
                 /\ pc' = [pc EXCEPT ![c] = "raised"]
                 /\ UNCHANGED fs
       ELSE /\ pc' = [pc EXCEPT ![c] = "return"]
            /\ UNCHANGED <<fs, raised>>
    /\ UNCHANGED <<base_kwargs, schema_path, env, log, eval_results, ret>>
    /\ LocalsUnchanged

\* lines 46-49 of call c
ReturnOf(c) ==
    /\ pc[c] = "return"
    /\ pc' = [pc EXCEPT ![c] = "returned"]
    /\ ret' = [ret EXCEPT ![c] =
                 IF args[c].return_contrs THEN eval_results[c]
                 ELSE [kind |-> "objective", objective |-> eval_results[c].objective]]
    /\ UNCHANGED <<base_kwargs, fs, schema_path, env, log, eval_results, raised>>
    /\ LocalsUnchanged

NextConc ==
    \E c \in Callers :
        \/ SetSchemaName(c)
        \/ SetDesign(c)
        \/ CallBuildSchema(c)
        \/ ConstructEnv(c)
        \/ EvaluateRest(c)
        \/ RemoveSchemaOf(c)
        \/ ReturnOf(c)

SpecConc == InitConc /\ [][NextConc]_vars

(***************************************************************************)
(* Properties of the control loop.                                         *)
(***************************************************************************)
\* the step indices of the calls of kind op made so far
Calls(op) == {i \in 1..Len(log) : log[i].op = op}
CallSteps(op) == {log[i].s : i \in Calls(op)}
LoopEnded == pc \in {"loop_done", "evaluated", "cleaned", "returned"}

\* C1: when control is enabled, time_steps > tau and the environment signals
\* done on its time_steps-th step, a loop that has ended has called env.step
\* exactly time_steps times and solve exactly time_steps - tau times, in the
\* iterations 0..time_steps-1-tau and in none of the last tau iterations.
C1_SolveSchedule ==
    (/\ LoopEnded
     /\ args.no_control = FALSE
     /\ env.time_steps > args.tau
     /\ env.done_after = env.time_steps)
    => /\ Cardinality(Calls("step")) = env.time_steps
       /\ CallSteps("step") = 0..(env.time_steps - 1)
       /\ Cardinality(Calls("solve")) = env.time_steps - args.tau
       /\ CallSteps("solve") = 0..(env.time_steps - 1 - args.tau)
       /\ \A s \in CallSteps("solve") : s < env.time_steps - args.tau

\* a loop of three steps with tau = 1 has ended: solves at steps 0 and 1, none at 2
C1_Witness ==
    /\ pc = "loop_done"
    /\ args.no_control = FALSE
    /\ args.tau = 1
    /\ env.time_steps = 3
    /\ env.done_after = 3
    /\ CallSteps("solve") = {0, 1}

\* the state of charge fractions a battery reports after k steps of zero action
RECURSIVE ZeroChargeSoc(_, _)
ZeroChargeSoc(b, k) ==
    IF k = 0 THEN InitialSoc(b) ELSE BatteryStep(ZeroChargeSoc(b, k - 1), <<0, 1>>)

\* C2: with no_control=True the planner is never called, every action handed
\* to env.step is the zero N-by-1 vector, and the tracked SoC is what the
\* environment reports when nothing is ever charged or discharged.
C2_NoControlZeroActions ==
    (args.no_control /\ env.kind = "env")
    => /\ Calls("load") \cup Calls("params") \cup Calls("solve") = {}
       /\ Calls("step") # {} =>
             /\ DOMAIN actions = Buildings
             /\ \A b \in Buildings : actions[b][1] = 0 /\ actions[b][2] # 0
       /\ \A b \in Buildings :
             current_socs[b] = ZeroChargeSoc(b, env.t) * lp.battery_capacities[b]

\* an uncontrolled run has ended where a controlled one would have planned, and
\* the tracked SoC has moved away from its initial value
C2_Witness ==
    /\ pc = "loop_done"
    /\ args.no_control
    /\ env.time_steps > args.tau
    /\ num_steps >= 2
    /\ current_socs[1] # InitialSoc(1) * lp.battery_capacities[1]

(***************************************************************************)
(* Properties of the cleanup in construct_and_evaluate_system.             *)
(***************************************************************************)
FileName(p) == p[Len(p)]
SchemaFileExists == NormPath(schema_path) \in DOMAIN fs

\* C9: once construct_and_evaluate_system has returned, a schema file whose
\* name is not 'schema.json' is gone; no step ever deletes a file named
\* 'schema.json'; and a file is deleted only after evaluate_system has returned.
C9_SchemaCleanup ==
    /\ [](pc = "returned" =>
            (FileName(schema_path) # "schema.json" => ~SchemaFileExists))
    /\ [][\A q \in DOMAIN fs : FileName(q) = "schema.json" => q \in DOMAIN fs']_vars
    /\ [][DOMAIN fs \ DOMAIN fs' # {} =>
            /\ pc = "evaluated"
            /\ eval_results.kind = "result"
            /\ env.kind = "env"]_vars

\* a call given a worker id has returned, its schema file is gone, the reference
\* schema is still there
C9_Witness ==
    /\ pc = "returned"
    /\ args.mproc_id = "1"
    /\ FileName(schema_path) = "mproc_schema_temp_1.json"
    /\ ~SchemaFileExists
    /\ ReferencePath \in DOMAIN fs

\* C10: however a call of construct_and_evaluate_system ends, by returning or
\* by an exception of solve or step that reaches the caller, no schema file it
\* created under a name other than 'schema.json' is left on the filesystem.
C10_CleanupOnEveryExit ==
    (/\ entry = "facade"
     /\ pc \in {"returned", "raised"})
    => (FileName(schema_path) # "schema.json" => ~SchemaFileExists)

(***************************************************************************)
(* Properties of the objective, stated on the series of the terminal       *)
(* environment.                                                            *)
(***************************************************************************)
Evaluated == pc = "evaluated"
Timesteps == 1..env.time_steps
Net(b, t) == env.buildings[b].net_electricity_consumption[t]
PriceAt(t) == env.buildings[1].electricity_pricing[t]
CarbonAt(t) == env.buildings[1].carbon_intensity[t]
Contr(i) == eval_results.objective_contrs[i]
\* the factor design=True puts on the operating costs
Lifetime == IF args.design THEN args.opex_factor ELSE 1

\* sum over buildings of sum over timesteps of max(0, net[b][t]) * weight[t]
ClipThenSum(weight(_)) ==
    SeqSum([b \in Buildings |->
              SeqSum([t \in Timesteps |-> Max(0, Net(b, t)) * weight(t)])])

\* sum over timesteps of max(0, sum over buildings of net[b][t]) * weight[t]
SumThenClip(weight(_)) ==
    SeqSum([t \in Timesteps |->
              Max(0, SeqSum([b \in Buildings |-> Net(b, t)])) * weight(t)])

\* sum over buildings and timesteps of net[b][t] * weight[t], nothing clipped
Unclipped(weight(_)) ==
    SeqSum([b \in Buildings |-> SeqSum([t \in Timesteps |-> Net(b, t) * weight(t)])])

\* C3: under clip_level 'm' the electricity contribution is clip-then-sum per
\* building against the price series, the carbon contribution is pricing['carbon']
\* times sum-then-clip against the carbon intensity series, each a timestep-wise
\* dot product (design=True multiplies both by opex_factor).
C3_MixedClipPolicy ==
    (Evaluated /\ args.clip_level = "m")
    => /\ Contr(1) = Lifetime * ClipThenSum(PriceAt)
       /\ Contr(2) = Lifetime * (args.pricing_dict.carbon * SumThenClip(CarbonAt))

\* 'm' has been evaluated where a building exports while the district imports,
\* and the dot product differs from the product of the totals
C3_Witness ==
    /\ Evaluated
    /\ args.clip_level = "m"
    /\ ~args.design
    /\ env.time_steps = 2
    /\ \E t \in Timesteps : Net(1, t) = 10 /\ Net(2, t) = -4
    /\ PriceAt(1) # PriceAt(2)
    /\ ClipThenSum(PriceAt) # SumThenClip(PriceAt)
    /\ Contr(1) # SeqSum([b \in Buildings |->
                            SeqSum([t \in Timesteps |-> Max(0, Net(b, t))])])
                    * SeqSum([t \in Timesteps |-> PriceAt(t)])

NoExports == \A b \in Buildings, t \in Timesteps : Net(b, t) >= 0

\* C4: when no building ever exports, every clip policy returns the same
\* electricity and the same carbon contribution: the unclipped ones.
C4_ClipPoliciesAgreeWithoutExports ==
    (Evaluated /\ NoExports)
    => /\ Contr(1) = Lifetime * Unclipped(PriceAt)
       /\ Contr(2) = Lifetime * (args.pricing_dict.carbon * Unclipped(CarbonAt))

\* 'b' has been evaluated on an environment in which both buildings import
C4_Witness ==
    /\ Evaluated
    /\ NoExports
    /\ args.clip_level = "b"
    /\ \E t \in Timesteps : Net(1, t) > 0 /\ Net(2, t) > 0 /\ CarbonAt(t) > 0
    /\ Contr(2) > 0

\* a timestep of positive price at which one building imports and another exports
Offsetting ==
    \E t \in Timesteps : \E b1, b2 \in Buildings :
        PriceAt(t) > 0 /\ Net(b1, t) > 0 /\ Net(b2, t) < 0

\* C5: for non-negative prices the electricity contribution of 'd' is at most
\* that of 'b', strictly less when an import meets an export at a timestep of
\* positive price; +10 and -4 at one timestep of price 1 give 6 and 10.
C5_DistrictAtMostBuilding ==
    (Evaluated /\ \A t \in Timesteps : PriceAt(t) >= 0)
    => /\ args.clip_level = "d" =>
             /\ Contr(1) <= Lifetime * ClipThenSum(PriceAt)
             /\ Offsetting => Contr(1) < Lifetime * ClipThenSum(PriceAt)
       /\ args.clip_level = "b" =>
             /\ Contr(1) >= Lifetime * SumThenClip(PriceAt)
             /\ Offsetting => Contr(1) > Lifetime * SumThenClip(PriceAt)
       /\ (/\ env.time_steps = 1
           /\ Net(1, 1) = 10
           /\ Net(2, 1) = -4
           /\ PriceAt(1) = 1
           /\ ~args.design)
          => /\ args.clip_level = "d" => Contr(1) = 6
             /\ args.clip_level = "b" => Contr(1) = 10

\* 'd' has been evaluated on +10 and -4 at one timestep of price 1
C5_Witness ==
    /\ Evaluated
    /\ args.clip_level = "d"
    /\ ~args.design
    /\ env.time_steps = 1
    /\ Net(1, 1) = 10
    /\ Net(2, 1) = -4
    /\ PriceAt(1) = 1
    /\ Contr(1) = 6

\* what design=False returns for a clip level, from the series
OperatingCosts ==
    CASE args.clip_level = "d" ->
            <<SumThenClip(PriceAt), args.pricing_dict.carbon * SumThenClip(CarbonAt)>>
      [] args.clip_level = "b" ->
            <<ClipThenSum(PriceAt), args.pricing_dict.carbon * ClipThenSum(CarbonAt)>>
      [] args.clip_level = "m" ->
            <<ClipThenSum(PriceAt), args.pricing_dict.carbon * SumThenClip(CarbonAt)>>

\* C6: design=False returns the two operating costs, unscaled; design=True with
\* opex_factor=k returns four entries: k times each of those two, then the
\* battery capex, then the solar capex.
C6_DesignScalesOperatingCosts ==
    Evaluated
    => IF args.design
       THEN /\ Len(eval_results.objective_contrs) = 4
            /\ Contr(1) = args.opex_factor * OperatingCosts[1]
            /\ Contr(2) = args.opex_factor * OperatingCosts[2]
            /\ SubSeq(eval_results.objective_contrs, 3, 4)
                  = <<BatteryCapex(env, lp), SolarCapex(env, lp)>>
       ELSE eval_results.objective_contrs = OperatingCosts

\* design=True has been evaluated with opex_factor 3 and positive operating costs
C6_Witness ==
    /\ Evaluated
    /\ args.design
    /\ args.opex_factor = 3
    /\ OperatingCosts[1] > 0
    /\ OperatingCosts[2] > 0
    /\ Contr(1) = 3 * OperatingCosts[1]

\* C7: with design=True the battery capex is the sum of the first entries of
\* the capacity histories times pricing['battery'], the solar capex the sum of
\* the nominal powers times pricing['solar'], whatever opex_factor is and
\* whatever the later entries of the histories are.
C7_CapexFromInitialCapacity ==
    (Evaluated /\ args.design)
    => /\ Contr(3) = SeqSum([b \in Buildings |-> env.buildings[b].capacity_history[1]])
                        * args.pricing_dict.battery
       /\ Contr(4) = SeqSum([b \in Buildings |-> env.buildings[b].nominal_power])
                        * args.pricing_dict.solar

\* design=True has been evaluated with opex_factor 3 on batteries whose
\* capacity has changed since it was first recorded
C7_Witness ==
    /\ Evaluated
    /\ args.design
    /\ args.opex_factor = 3
    /\ \A b \in Buildings :
          LET h == env.buildings[b].capacity_history IN h[Len(h)] # h[1]
    /\ Contr(3) > 0
    /\ Contr(4) > 0

\* C8: for every clip level and either value of design, the objective is the
\* sum of the entries of objective_contrs.
C8_ObjectiveIsSumOfContributions ==
    Evaluated
    => eval_results.objective =
          IF args.design THEN Contr(1) + Contr(2) + Contr(3) + Contr(4)
          ELSE Contr(1) + Contr(2)

\* design=True has been evaluated with every contribution positive
C8_Witness ==
    /\ Evaluated
    /\ args.design
    /\ \A i \in 1..4 : Contr(i) > 0
    /\ eval_results.objective > Contr(1) + Contr(2)

(***************************************************************************)
(* Further properties of the control loop.                                 *)
(***************************************************************************)
PlannerCalls == Calls("load") \cup Calls("params") \cup Calls("solve")
IsZeroVector(a) ==
    /\ DOMAIN a = Buildings
    /\ \A b \in Buildings : a[b][1] = 0 /\ a[b][2] # 0

\* C14: every window loaded into the planner has t_start + tau <= time_steps;
\* when tau >= time_steps the planner is never called and every action is zero.
C14_FullWindowsOnly ==
    /\ \A i \in Calls("load") : log[i].s + args.tau <= env.time_steps
    /\ Calls("load") # {} =>
          /\ lp.window.tau = args.tau
          /\ lp.window.t_start + lp.window.tau <= env.time_steps
    /\ (env.kind = "env" /\ args.tau >= env.time_steps) =>
          /\ PlannerCalls = {}
          /\ Calls("step") # {} => IsZeroVector(actions)

\* the last window that fits has been loaded: it starts after step 0 and ends
\* with the simulation's last step
C14_Witness ==
    /\ Calls("load") # {}
    /\ args.tau >= 1
    /\ lp.window.t_start >= 1
    /\ lp.window.t_start + lp.window.tau = env.time_steps - 1

\* the window-loading call made by a step, if it makes one
LoadsWindow == Len(log') > Len(log) /\ log'[Len(log) + 1].op = "load"

\* C15: in the control loop the tracked SoC is, per building, the fraction in
\* column soc_obs_index of the most recent observation (reset's, then the latest
\* env.step's) times the battery capacity; the SoC handed to the planner at step
\* s comes from the observation returned by step s-1, or by reset when s = 0.
C15_SocFromLatestObservation ==
    /\ [](env.kind = "env" =>
            /\ \A b \in Buildings :
                  /\ observations[b][soc_obs_index] = env.soc[b]
                  /\ observations[b][soc_obs_index - 1] = env.t
                  /\ current_socs[b] =
                        observations[b][soc_obs_index] * lp.battery_capacities[b]
            /\ raised = None => env.t = num_steps)
    /\ [][LoadsWindow =>
            /\ lp'.window.t_start = num_steps
            /\ \A b \in Buildings :
                  /\ observations[b][soc_obs_index - 1] = lp'.window.t_start
                  /\ lp'.window.current_socs[b] =
                        observations[b][soc_obs_index] * lp.battery_capacities[b]]_vars

\* the planner was handed, after the first step, a SoC that differs from reset's
C15_Witness ==
    /\ Calls("load") # {}
    /\ lp.window.t_start >= 1
    /\ \E b \in Buildings :
          lp.window.current_socs[b] # InitialSoc(b) * lp.battery_capacities[b]

\* the calls a step adds to the log
NewCalls == SubSeq(log', Len(log) + 1, Len(log'))
StepsApplied == Cardinality(Calls("step"))

\* C16: an iteration of the loop makes exactly one env.step and at most one
\* solve; an iteration that plans calls load (with t_start = the number of steps
\* already applied), params, solve, env.step in this order, and the action of
\* that step is this iteration's first-timestep flow over the battery capacity.
C16_IterationOrder ==
    [][(pc = "loop" /\ raised' # "solve") =>
          \/ /\ NewCalls = PlanningEvents(StepsApplied) \o <<Event("step", StepsApplied)>>
             /\ lp'.window.t_start = StepsApplied
             /\ results'.battery_inflows \in FirstInflows(lp)
             /\ \A b \in Buildings :
                   actions'[b] = <<results'.battery_inflows[b], lp.battery_capacities[b]>>
          \/ /\ NewCalls = <<Event("step", StepsApplied)>>
             /\ IsZeroVector(actions')
             /\ results' = results]_vars

\* two planning iterations have run; the latest applied a non-zero flow over a
\* capacity above one
C16_Witness ==
    /\ Cardinality(Calls("solve")) >= 2
    /\ Cardinality(Calls("step")) = Cardinality(Calls("solve"))
    /\ raised = None
    /\ \E b \in Buildings : actions[b][1] # 0 /\ actions[b][2] > 1

\* C17: a failed solve ends the evaluation: it is the last call made (no
\* env.step, no second solve of that step, no zero action in its place), nothing
\* happens afterwards and no objective is returned; a step that follows a solve
\* in its iteration applies what that solve returned.
C17_FailedSolveIsFatal ==
    /\ [](raised = "solve" =>
            /\ pc = "raised"
            /\ eval_results = NoResult /\ ret = NoResult
            /\ log[Len(log)] = Event("solve", num_steps)
            /\ Cardinality({i \in Calls("solve") : log[i].s = num_steps}) = 1
            /\ \A i \in Calls("step") : log[i].s < num_steps)
    /\ [][raised # "solve"]_vars
    /\ [][(\E i \in 1..Len(NewCalls) : NewCalls[i].op = "solve")
            /\ NewCalls[Len(NewCalls)].op = "step" =>
               /\ raised' # "solve"
               /\ \A b \in Buildings :
                     actions'[b] = <<results'.battery_inflows[b], lp.battery_capacities[b]>>]_vars

\* a solve has failed after earlier steps were planned and applied
C17_Witness ==
    /\ raised = "solve"
    /\ num_steps >= 1
    /\ Cardinality(Calls("solve")) >= 2
    /\ Calls("step") # {}

\* C18: the loop ends once the environment has signalled done: no env.step is
\* made after a step that returned done, the step counter of an ended loop is
\* the number of env.step calls, an objective exists only after the loop has
\* ended, and a call in which nothing raises reaches the end of its loop.
C18_LoopTerminates ==
    /\ [][done => \A i \in 1..Len(NewCalls) : NewCalls[i].op # "step"]_vars
    /\ [](LoopEnded => done /\ num_steps = Cardinality(Calls("step")))
    /\ [](eval_results.kind # "none" \/ ret.kind # "none" => LoopEnded)
    /\ <>(raised # None \/ LoopEnded)

\* the loop has ended after several steps and the objective has been computed
C18_Witness ==
    /\ LoopEnded
    /\ done
    /\ num_steps >= 2
    /\ Cardinality(Calls("step")) = num_steps
    /\ eval_results.kind # "none"

NonNegativeInputs ==
    /\ \A t \in Timesteps : PriceAt(t) >= 0 /\ CarbonAt(t) >= 0
    /\ \A k \in DOMAIN lp.pricing_dict : lp.pricing_dict[k] >= 0
    /\ args.opex_factor >= 0
    /\ \A b \in Buildings :
          /\ env.buildings[b].capacity_history[1] >= 0
          /\ env.buildings[b].nominal_power >= 0

\* C19: with non-negative price and carbon series, pricing values, opex_factor,
\* battery capacities and solar powers, every entry of objective_contrs is
\* non-negative, under every clip level and both values of design, whatever the
\* sign of the net consumption.
C19_ContributionsNonNegative ==
    (Evaluated /\ NonNegativeInputs)
    => \A i \in 1..Len(eval_results.objective_contrs) : Contr(i) >= 0

\* the district exports at a timestep with a positive price and carbon intensity
C19_Witness ==
    /\ Evaluated
    /\ NonNegativeInputs
    /\ \E t \in Timesteps :
          /\ SeqSum([b \in Buildings |-> Net(b, t)]) < 0
          /\ PriceAt(t) > 0 /\ CarbonAt(t) > 0
    /\ \E b \in Buildings, t \in Timesteps : Net(b, t) > 0
    /\ Contr(1) > 0

\* C13: a call that ends with the error of a missing pricing key has taken no
\* environment step and has made no planner solve.
C13_ConfigErrorFailsFast ==
    raised = "KeyError" => Calls("step") = {} /\ Calls("solve") = {}

(***************************************************************************)
(* Properties of concurrent calls.                                         *)
(***************************************************************************)
OwnKwargs == args[1].base_kwargs # args[2].base_kwargs
DistinctWorkerIds ==
    /\ \A c \in Callers : args[c].mproc_id # None
    /\ args[1].mproc_id # args[2].mproc_id
\* the schema file call c has built and has not removed yet
HoldsSchema(c) == pc[c] \in {"env", "run", "remove"}
\* the content build_schema writes for the design call c asks for
OwnContent(c, content) ==
    /\ content.battery_energy_capacities = args[c].battery_capacities
    /\ content.pv_power_capacities = args[c].solar_capacities
EnvOf(c) == env[c].kind = "env"
ReadsOwnSchema(c) ==
    \A b \in Buildings :
        /\ env[c].buildings[b].capacity_history[1] = args[c].battery_capacities[b]
        /\ env[c].buildings[b].nominal_power = args[c].solar_capacities[b]

\* C11: two concurrent calls with distinct worker identifiers and their own
\* base_kwargs use distinct schema files under every interleaving: the file a
\* call has built stays as it wrote it until the call itself removes it, each
\* environment is built from the call's own schema, and no call fails.
C11_DistinctIdsIsolate ==
    (DistinctWorkerIds /\ OwnKwargs) =>
        /\ \A c \in Callers :
              /\ schema_path[c] # Unset =>
                    /\ FileName(schema_path[c]) = MprocSchemaName(args[c].mproc_id) \o ".json"
                    /\ schema_path[Other(c)] # Unset =>
                          NormPath(schema_path[c]) # NormPath(schema_path[Other(c)])
              /\ HoldsSchema(c) =>
                    /\ NormPath(schema_path[c]) \in DOMAIN fs
                    /\ OwnContent(c, fs[NormPath(schema_path[c])])
              /\ EnvOf(c) => ReadsOwnSchema(c)
              /\ raised[c] = None

\* both calls hold their schema files at once, and one has read its own
C11_Witness ==
    /\ DistinctWorkerIds /\ OwnKwargs
    /\ \A c \in Callers : HoldsSchema(c)
    /\ \E c \in Callers : EnvOf(c) /\ ReadsOwnSchema(c)
    /\ base_kwargs["kw1"].time_steps >= 2

SameSchemaName ==
    /\ args[1].mproc_id = args[2].mproc_id
    /\ args[1].mproc_id = None =>
          base_kwargs[args[1].base_kwargs].schema_name =
             base_kwargs[args[2].base_kwargs].schema_name

\* C12: two concurrent calls with the same worker identifier (or none and the
\* same schema name) use one schema file whatever their own schema names were,
\* and nothing holds a call back from overwriting or deleting that file while
\* the other call has built it and has not yet constructed its environment.
C12_SameIdSharesFile ==
    SameSchemaName =>
        \A c \in Callers :
            /\ (schema_path[c] # Unset /\ schema_path[Other(c)] # Unset) =>
                  NormPath(schema_path[c]) = NormPath(schema_path[Other(c)])
            /\ (pc[c] = "env" /\ pc[Other(c)] = "build") =>
                  ENABLED CallBuildSchema(Other(c))
            /\ (pc[c] = "env" /\ pc[Other(c)] = "remove") =>
                  ENABLED RemoveSchemaOf(Other(c))

\* each call has its own dict, yet one has returned an objective for the schema
\* the other built, and the other found no file to build its environment from
C12_Witness ==
    /\ SameSchemaName
    /\ OwnKwargs
    /\ \E c \in Callers :
          /\ pc[c] = "returned"
          /\ ret[c].kind = "objective"
          /\ EnvOf(c) /\ ~ReadsOwnSchema(c)
          /\ raised[c] = None
          /\ raised[Other(c)] = "schema"

\* C20: when two calls with distinct worker identifiers are handed the same
\* base_kwargs object, every build_schema call still receives the schema name of
\* its own worker identifier and its own capacities and efficiencies.
C20_SharedKwargsKeepOwnValues ==
    (DistinctWorkerIds /\ ~OwnKwargs) =>
        \A i \in 1..Len(log) :
            LET c == log[i].caller
                kw == log[i].kwargs
            IN  /\ kw.schema_name = MprocSchemaName(args[c].mproc_id)
                /\ kw.battery_energy_capacities = args[c].battery_capacities
                /\ kw.battery_efficiencies = args[c].battery_efficiencies
                /\ kw.pv_power_capacities = args[c].solar_capacities

====
